---- MODULE Spec2Model ----
(***************************************************************************)
(* A model of tensorflow_probability/python/internal/backend/numpy/        *)
(* numpy_array.py: the numpy implementations of TensorFlow's top-level     *)
(* array functions.                                                        *)
(*                                                                         *)
(* An array is a record [shape, data]: its shape and its entries in        *)
(* row-major (C) order, as numpy lays them out.  A Python None is the      *)
(* empty tuple <<>> and a present optional value x is <<x>>.  A call's     *)
(* outcome is a record: what it returned or raised, the argument arrays    *)
(* as they are after the call, the arguments whose contents the call       *)
(* read, and the module's global names as they are after the call.         *)
(***************************************************************************)
EXTENDS Integers, Sequences, FiniteSets, TLC

VARIABLES globals, call, ret, after, reads, pin

vars == <<globals, call, ret, after, reads, pin>>

-----------------------------------------------------------------------------
(* Bounds of the model. *)

\* Largest extent of a dimension of an input array.
MaxDim == 2
\* Largest rank of an input array.
MaxRank == 2
\* Largest depth given to one_hot.
MaxDepth == 3
\* Longest list of sizes given to split.
MaxSizes == 2
\* Longest vector of indices given to gather and one_hot.
MaxIdxLen == 2
\* Longest vector given to a function in a session of several calls.
MaxModDim == 2
\* Most positional arguments of a call whose arguments are only bound.
MaxPos == 3

-----------------------------------------------------------------------------
(* Python values. *)

None == <<>>
Some(x) == <<x>>

Max(a, b) == IF a >= b THEN a ELSE b
Min(a, b) == IF a <= b THEN a ELSE b
Abs(x) == IF x < 0 THEN -x ELSE x

RECURSIVE Prod(_)
Prod(s) == IF s = <<>> THEN 1 ELSE Head(s) * Prod(Tail(s))

RECURSIVE Sum(_)
Sum(s) == IF s = <<>> THEN 0 ELSE Head(s) + Sum(Tail(s))

\* The sequence with the entries of the function f on 1..n.
Tuple(f) == f \o <<>>

\* s with its i-th entry (1-based) removed.
Drop(s, i) == SubSeq(s, 1, i - 1) \o SubSeq(s, i + 1, Len(s))
\* s with x inserted so that it becomes the i-th entry (1-based).
Insert(s, i, x) == SubSeq(s, 1, i - 1) \o <<x>> \o SubSeq(s, i, Len(s))
\* s with its i-th entry (1-based) replaced by x.
Replace(s, i, x) == SubSeq(s, 1, i - 1) \o <<x>> \o SubSeq(s, i + 1, Len(s))

-----------------------------------------------------------------------------
(* numpy arrays. *)

Arr(shape, data) == [shape |-> shape, data |-> data]
Scalar(x) == Arr(<<>>, <<x>>)
Vec(s) == Arr(<<Len(s)>>, s)
ndim(a) == Len(a.shape)

\* The multi-index (0-based) of the k-th entry (0-based) in row-major order.
RECURSIVE Unravel(_, _)
Unravel(k, shape) ==
  IF shape = <<>> THEN <<>>
  ELSE <<k \div Prod(Tail(shape))>> \o Unravel(k % Prod(Tail(shape)), Tail(shape))

\* The row-major position (0-based) of the entry at multi-index idx.
RECURSIVE Ravel(_, _)
Ravel(idx, shape) ==
  IF idx = <<>> THEN 0
  ELSE Head(idx) * Prod(Tail(shape)) + Ravel(Tail(idx), Tail(shape))

At(a, idx) == a.data[Ravel(idx, a.shape) + 1]

\* The array of the given shape whose entry at multi-index j is F(j).
Build(shape, F(_)) ==
  Arr(shape, Tuple([k \in 1..Prod(shape) |-> F(Unravel(k - 1, shape))]))

\* All multi-indices of a shape.
Indices(shape) == {Unravel(k - 1, shape) : k \in 1..Prod(shape)}

\* A negative axis counts from the end.
NormAxis(axis, n) == IF axis < 0 THEN axis + n ELSE axis

\* A negative index counts from the end (numpy's mode='raise').
WrapIndex(i, n) == IF i < 0 THEN i + n ELSE i
IndexInRange(i, n) == -n <= i /\ i < n

(* What a numpy function gives: the arrays it returns, or the error it    *)
(* raises.                                                                *)
Good(vs) == [exc |-> "", vals |-> vs]
Bad(e) == [exc |-> e, vals |-> <<>>]

(* np.take(a, indices, axis): with axis None the array is flattened first. *)
np_take(a, indices, axis) ==
  LET flat == axis = None
      ax == IF flat THEN 0 ELSE NormAxis(axis[1], ndim(a))
      n == IF flat THEN Prod(a.shape) ELSE a.shape[ax + 1]
      ri == ndim(indices)
  IN IF \E k \in 1..Len(indices.data) : ~IndexInRange(indices.data[k], n)
     THEN Bad("IndexError")
     ELSE IF flat
     THEN Good(<<Build(indices.shape,
                       LAMBDA j : a.data[WrapIndex(At(indices, j), n) + 1])>>)
     ELSE Good(<<Build(SubSeq(a.shape, 1, ax) \o indices.shape
                         \o SubSeq(a.shape, ax + 2, ndim(a)),
                       LAMBDA j :
                         At(a, SubSeq(j, 1, ax)
                                 \o <<WrapIndex(
                                        At(indices, SubSeq(j, ax + 1, ax + ri)),
                                        n)>>
                                 \o SubSeq(j, ax + ri + 1, Len(j))))>>)

(* Python's slice(start, stop) applied to a dimension of extent n: the     *)
(* first position taken and the number of positions taken.  A negative     *)
(* bound counts from the end, a bound past the end is clipped, and stop    *)
(* None is the end.                                                        *)
ClipBound(b, n) == IF b < 0 THEN Max(0, b + n) ELSE Min(b, n)
SliceStart(start, n) == ClipBound(start, n)
SliceLen(start, stop, n) ==
  Max(0, (IF stop = None THEN n ELSE ClipBound(stop[1], n)) - ClipBound(start, n))

\* a[..., start:stop, ...] along dimension ax (0-based).
SliceAxis(a, ax, start, stop) ==
  LET n == a.shape[ax + 1]
      st == SliceStart(start, n)
  IN Build(Replace(a.shape, ax + 1, SliceLen(start, stop, n)),
           LAMBDA j : At(a, Replace(j, ax + 1, j[ax + 1] + st)))

(* np.split(ary, sections, axis) with an integer: equal division.  The     *)
(* test N % sections divides by zero when sections is 0.                   *)
np_split_sections(ary, sections, axis) ==
  LET ax == NormAxis(axis, ndim(ary))
      N == ary.shape[ax + 1]
  IN IF sections = 0 THEN Bad("ZeroDivisionError")
     ELSE IF N % sections # 0 THEN Bad("ValueError")
     ELSE LET each == N \div sections
          IN Good(Tuple([i \in 1..sections |->
                           SliceAxis(ary, ax, (i - 1) * each, Some(i * each))]))

(* np.split(ary, sections, axis) with a 0-d integer array: N % sections   *)
(* is numpy's remainder, which is 0 for sections 0, and array_split then  *)
(* refuses a number of sections that is not positive.                     *)
np_split_array(ary, sections, axis) ==
  IF sections <= 0 THEN Bad("ValueError")
  ELSE np_split_sections(ary, sections, axis)

(* np.split(ary, indices, axis) with a list of split points: one more      *)
(* piece than there are points, piece i being                              *)
(* ary[div_points[i]:div_points[i+1]] with div_points = [0]+indices+[N].   *)
np_split_indices(ary, indices, axis) ==
  LET ax == NormAxis(axis, ndim(ary))
      N == ary.shape[ax + 1]
      div_points == <<0>> \o indices \o <<N>>
  IN Good(Tuple([i \in 1..(Len(indices) + 1) |->
                   SliceAxis(ary, ax, div_points[i], Some(div_points[i + 1]))]))

(* np.squeeze(a, axis): removes a dimension of extent 1. *)
np_squeeze(a, axis) ==
  IF axis = None
  THEN Good(<<Arr(SelectSeq(a.shape, LAMBDA d : d # 1), a.data)>>)
  ELSE LET ax == NormAxis(axis[1], ndim(a))
       IN IF a.shape[ax + 1] # 1 THEN Bad("ValueError")
          ELSE Good(<<Arr(Drop(a.shape, ax + 1), a.data)>>)

(* np.stack(values, axis): joins equally shaped arrays along a new axis. *)
np_stack(values, axis) ==
  IF values = <<>> THEN Bad("ValueError")
  ELSE IF \E i \in 1..Len(values) : values[i].shape # values[1].shape
  THEN Bad("ValueError")
  ELSE LET ax == NormAxis(axis, ndim(values[1]) + 1)
       IN Good(<<Build(Insert(values[1].shape, ax + 1, Len(values)),
                       LAMBDA j : At(values[j[ax + 1] + 1], Drop(j, ax + 1)))>>)

\* The number of the piece that holds position p, and p's place in it.
RECURSIVE PieceOf(_, _, _)
PieceOf(extents, p, i) ==
  IF p < extents[i] THEN <<i, p>> ELSE PieceOf(extents, p - extents[i], i + 1)

(* np.concatenate(values, axis): joins arrays along an existing axis. *)
np_concatenate(values, axis) ==
  IF values = <<>> THEN Bad("ValueError")
  ELSE LET ax == NormAxis(axis, ndim(values[1]))
           extents == Tuple([i \in 1..Len(values) |-> values[i].shape[ax + 1]])
       IN IF \E i \in 1..Len(values) :
               Drop(values[i].shape, ax + 1) # Drop(values[1].shape, ax + 1)
          THEN Bad("ValueError")
          ELSE Good(<<Build(Replace(values[1].shape, ax + 1, Sum(extents)),
                            LAMBDA j :
                              At(values[PieceOf(extents, j[ax + 1], 1)[1]],
                                 Replace(j, ax + 1,
                                         PieceOf(extents, j[ax + 1], 1)[2])))>>)

(* np.flip(a, axis): reverses the order of the entries along an axis. *)
np_flip(a, axis) ==
  LET ax == NormAxis(axis, ndim(a))
  IN Build(a.shape,
           LAMBDA j : At(a, Replace(j, ax + 1, a.shape[ax + 1] - 1 - j[ax + 1])))

(* np.moveaxis(a, -1, axis): the last axis moved to position axis. *)
np_moveaxis_last(a, axis) ==
  LET n == ndim(a)
      ax == NormAxis(axis, n)
  IN Build(Insert(SubSeq(a.shape, 1, n - 1), ax + 1, a.shape[n]),
           LAMBDA j : At(a, Drop(j, ax + 1) \o <<j[ax + 1]>>))

(* np.roll(a, shift, axis): the entries moved shift places along an axis, *)
(* those pushed past the end coming back at the start.                    *)
np_roll(a, shift, axis) ==
  LET ax == NormAxis(axis, ndim(a))
  IN Build(a.shape,
           LAMBDA j : At(a, Replace(j, ax + 1, (j[ax + 1] - shift) % a.shape[ax + 1])))

\* n ones.
Ones(n) == Tuple([i \in 1..n |-> 1])

(* np.tile(a, reps): the shorter of a.shape and reps gets leading ones. *)
np_tile(a, reps) ==
  LET d == Max(Len(reps), ndim(a))
      shape == Ones(d - ndim(a)) \o a.shape
      times == Ones(d - Len(reps)) \o reps
  IN Build(Tuple([i \in 1..d |-> shape[i] * times[i]]),
           LAMBDA j :
             At(a, SubSeq(Tuple([i \in 1..d |-> j[i] % shape[i]]),
                          d - ndim(a) + 1, d)))

(* np.transpose(a, perm): axis i of the result is axis perm[i] of a; with *)
(* perm None the axes are reversed.                                       *)
np_transpose(a, perm) ==
  LET n == ndim(a)
      p == IF perm = None THEN Tuple([i \in 1..n |-> n - i]) ELSE perm[1]
  IN IF Len(p) # n \/ {p[i] : i \in 1..Len(p)} # 0..(n - 1)
     THEN Bad("ValueError")
     ELSE Good(<<Build(Tuple([i \in 1..n |-> a.shape[p[i] + 1]]),
                       LAMBDA j :
                         At(a, Tuple([m \in 1..n |->
                                        j[CHOOSE i \in 1..n : p[i] + 1 = m]])))>>)

(* np.expand_dims(a, axis): a new axis of extent 1. *)
np_expand_dims(a, axis) ==
  Arr(Insert(a.shape, NormAxis(axis, ndim(a) + 1) + 1, 1), a.data)

(* np.reshape(a, shape): the same entries in row-major order; one extent  *)
(* may be -1 and is then worked out from the others.                      *)
np_reshape(a, shape) ==
  LET unknown == {i \in 1..Len(shape) : shape[i] = -1}
      known == Prod(SelectSeq(shape, LAMBDA d : d # -1))
      total == Prod(a.shape)
  IN IF Cardinality(unknown) > 1 \/ \E i \in 1..Len(shape) : shape[i] < -1
     THEN Bad("ValueError")
     ELSE IF unknown = {}
     THEN IF known = total THEN Good(<<Arr(shape, a.data)>>) ELSE Bad("ValueError")
     ELSE IF known = 0 \/ total % known # 0 THEN Bad("ValueError")
     ELSE Good(<<Arr(Tuple([i \in 1..Len(shape) |->
                              IF shape[i] = -1 THEN total \div known ELSE shape[i]]),
                     a.data)>>)

(* np.pad(a, paddings, mode='constant', constant_values=c). *)
np_pad_constant(a, paddings, c) ==
  LET n == ndim(a)
      inside(j) == \A i \in 1..n :
                     paddings[i][1] <= j[i] /\ j[i] < paddings[i][1] + a.shape[i]
  IN Build(Tuple([i \in 1..n |-> paddings[i][1] + a.shape[i] + paddings[i][2]]),
           LAMBDA j :
             IF inside(j)
             THEN At(a, Tuple([i \in 1..n |-> j[i] - paddings[i][1]]))
             ELSE c)

\* Two shapes broadcast: lined up at their last dimensions, the extents of
\* each dimension are equal or one of them is 1.
PadShape(s, d) == Ones(d - Len(s)) \o s
CanBroadcast(s1, s2) ==
  LET d == Max(Len(s1), Len(s2))
  IN \A i \in 1..d :
       \/ PadShape(s1, d)[i] = PadShape(s2, d)[i]
       \/ PadShape(s1, d)[i] = 1
       \/ PadShape(s2, d)[i] = 1
BroadcastShape(s1, s2) ==
  LET d == Max(Len(s1), Len(s2))
  IN Tuple([i \in 1..d |->
              IF PadShape(s1, d)[i] = 1 THEN PadShape(s2, d)[i]
              ELSE PadShape(s1, d)[i]])
\* The entry of a that the entry j of the broadcast result comes from.
BroadcastAt(a, j) ==
  LET d == Len(j)
      n == ndim(a)
  IN At(a, Tuple([i \in 1..n |-> IF a.shape[i] = 1 THEN 0 ELSE j[d - n + i]]))

(* np.where(condition, x, y): x where the condition is true, else y. *)
np_where(condition, x, y) ==
  IF ~CanBroadcast(x.shape, y.shape)
       \/ ~CanBroadcast(condition.shape, BroadcastShape(x.shape, y.shape))
  THEN Bad("ValueError")
  ELSE Good(<<Build(BroadcastShape(condition.shape,
                                   BroadcastShape(x.shape, y.shape)),
                    LAMBDA j :
                      IF BroadcastAt(condition, j) # 0 THEN BroadcastAt(x, j)
                      ELSE BroadcastAt(y, j))>>)

\* The least integer not below a / b, for b > 0.
CeilDiv(a, b) == -((-a) \div b)
\* a / b rounded toward zero, for b > 0.
TruncDiv(a, b) == IF a >= 0 THEN a \div b ELSE -((-a) \div b)

(* np.arange(start, stop, step) on integers; with stop None the range is  *)
(* from 0 to start.                                                       *)
np_arange(start, stop, step) ==
  LET lo == IF stop = None THEN 0 ELSE start
      hi == IF stop = None THEN start ELSE stop[1]
      n == IF step > 0 THEN Max(0, CeilDiv(hi - lo, step))
           ELSE Max(0, CeilDiv(lo - hi, -step))
  IN IF step = 0 THEN Bad("ZeroDivisionError")
     ELSE Good(<<Vec(Tuple([i \in 1..n |-> lo + (i - 1) * step]))>>)

(* np.linspace(start, stop, num).astype(an integer type): num evenly      *)
(* spaced samples from start to stop, each cut to an integer.             *)
np_linspace_int(start, stop, num) ==
  IF num < 0 THEN Bad("ValueError")
  ELSE Good(<<Vec(Tuple([i \in 1..num |->
                           IF num = 1 THEN start
                           ELSE IF i = num THEN stop
                           ELSE TruncDiv(start * (num - 1) + (i - 1) * (stop - start),
                                         num - 1)]))>>)

(* np.searchsorted(a, v, side): for each entry of v, the number of        *)
(* entries of the sorted a that are below it (left) or not above it       *)
(* (right).                                                               *)
np_searchsorted(a, v, side) ==
  IF side \notin {"left", "right"} THEN Bad("ValueError")
  ELSE Good(<<Build(v.shape,
                    LAMBDA j :
                      Cardinality({k \in 1..Len(a.data) :
                                     IF side = "left" THEN a.data[k] < At(v, j)
                                     ELSE a.data[k] <= At(v, j)}))>>)

(* np.meshgrid(x1, ..., xn, indexing): one array for each 1-D input,      *)
(* input i laid along dimension i; xy swaps the first two dimensions.     *)
np_meshgrid(xi, indexing) ==
  LET n == Len(xi)
      dim(i) == IF indexing = "xy" /\ n >= 2 /\ i <= 2 THEN 3 - i ELSE i
      shape == Tuple([d \in 1..n |-> Len(xi[dim(d)].data)])
  IN IF indexing \notin {"xy", "ij"} THEN Bad("ValueError")
     ELSE Good(Tuple([i \in 1..n |->
                        Build(shape, LAMBDA j : xi[i].data[j[dim(i)] + 1])]))

-----------------------------------------------------------------------------
(* The module's global names.  Loading the module runs its top-level       *)
(* statements in order; each binds one name.  A def, a lambda, an import   *)
(* or a library attribute is a function object, written here by its name;  *)
(* a statement may instead look a name up in the names bound so far.       *)

__all__ ==
  <<"concat", "expand_dims", "fill", "gather", "gather_nd", "linspace",
    "meshgrid", "norm", "one_hot", "ones", "ones_like", "pad", "range",
    "rank", "reshape", "reverse", "roll", "searchsorted", "shape", "size",
    "slice", "split", "squeeze", "stack", "tile", "transpose", "unstack",
    "where", "zeros", "zeros_like">>

\* A statement that binds name to a new function object.
New(name, obj) == [name |-> name, lookup |-> FALSE, ref |-> obj, wrap |-> FALSE]
\* name = copy_docstring(tf.name, <a new function object>).
Wrap(name, obj) == [name |-> name, lookup |-> FALSE, ref |-> obj, wrap |-> TRUE]
\* name = copy_docstring(tf.name, <the value of the global ref>).
WrapName(name, ref) == [name |-> name, lookup |-> TRUE, ref |-> ref, wrap |-> TRUE]
\* name = <the value of the global ref>.
Alias(name, ref) == [name |-> name, lookup |-> TRUE, ref |-> ref, wrap |-> FALSE]

Statements ==
  << New("norm", "linalg_impl.norm"),
     New("_gather", "_gather"), New("_gather_nd", "_gather_nd"),
     New("_one_hot", "_one_hot"), New("_ones_like", "_ones_like"),
     New("_pad", "_pad"), New("_reverse", "_reverse"),
     New("_searchsorted", "_searchsorted"), New("_shape", "_shape"),
     New("_size", "_size"),
     Alias("builtin_slice", "slice"),
     New("_slice", "_slice"), New("_split", "_split"),
     New("_transpose", "_transpose"), New("_zeros_like", "_zeros_like"),
     Wrap("concat", "concat.lambda"),
     Wrap("expand_dims", "expand_dims.lambda"),
     Wrap("fill", "fill.lambda"),
     WrapName("gather", "_gather"),
     WrapName("gather_nd", "_gather_nd"),
     WrapName("reverse", "_reverse"),
     Wrap("linspace", "linspace.lambda"),
     Wrap("meshgrid", "np.meshgrid"),
     WrapName("norm", "norm"),
     WrapName("one_hot", "_one_hot"),
     Wrap("ones", "ones.lambda"),
     WrapName("ones_like", "_ones_like"),
     WrapName("pad", "_pad"),
     Wrap("range", "range.lambda"),
     Wrap("rank", "rank.lambda"),
     Wrap("reshape", "reshape.lambda"),
     Wrap("roll", "roll.lambda"),
     WrapName("searchsorted", "_searchsorted"),
     WrapName("shape", "_shape"),
     WrapName("size", "_size"),
     WrapName("slice", "_slice"),
     WrapName("split", "_split"),
     Wrap("squeeze", "squeeze.lambda"),
     Wrap("stack", "stack.lambda"),
     Wrap("tile", "tile.lambda"),
     WrapName("transpose", "_transpose"),
     Wrap("unstack", "unstack.lambda"),
     Wrap("where", "where.lambda"),
     Wrap("zeros", "zeros.lambda"),
     WrapName("zeros_like", "_zeros_like") >>

Names == {Statements[i].name : i \in 1..Len(Statements)}

\* Before the module's first statement a name resolves to the builtin of
\* that name, if there is one.
Builtins ==
  [n \in Names |-> IF n \in {"slice", "range"} THEN "builtins." \o n
                   ELSE "unbound"]

\* utils.copy_docstring(original_fn, new_fn): new_fn, carrying the
\* original's docstring.
copy_docstring(original_fn, new_fn) == new_fn

Exec(g, st) ==
  LET obj == IF st.lookup THEN g[st.ref] ELSE st.ref
  IN [g EXCEPT ![st.name] =
        IF st.wrap THEN copy_docstring("tf." \o st.name, obj) ELSE obj]

RECURSIVE Load(_, _)
Load(g, k) == IF k > Len(Statements) THEN g ELSE Load(Exec(g, Statements[k]), k + 1)

\* The global names once the module has loaded.
ModuleGlobals == Load(Builtins, 1)

-----------------------------------------------------------------------------
(* The outcome of a call. *)

Outcome(r, tuple, args, rd) ==
  [kind |-> IF r.exc = "" THEN "return" ELSE "raise",
   exc |-> r.exc, vals |-> r.vals, tuple |-> tuple,
   args |-> args, reads |-> rd, globals |-> globals]

\* The call hands its arguments to numpy and returns one array (or raises
\* what numpy raises).
Returns(r, args) == Outcome(r, FALSE, args, 1..Len(args))
\* The call returns a list or tuple of arrays.
ReturnsList(r, args) == Outcome(r, TRUE, args, 1..Len(args))
\* The call raises before it looks at any argument array.
Raises(e, args) == Outcome(Bad(e), FALSE, args, {})

\* An argument that is an integer, and one that is a list of integers.
IntArg(n) == [ndim |-> 0, n |-> n, items |-> <<>>]
ListArg(s) == [ndim |-> 1, n |-> 0, items |-> s]

-----------------------------------------------------------------------------
(* The functions of the module. *)

\* _gather without its test of batch_dims.
_gather_unchecked_batch_dims(params, indices, validate_indices, axis, batch_dims) ==
  IF validate_indices # None
  THEN Raises("NotImplementedError", <<params, indices>>)
  ELSE Returns(np_take(params, indices, axis), <<params, indices>>)

_gather(params, indices, validate_indices, axis, batch_dims) ==
  IF validate_indices # None
  THEN Raises("NotImplementedError", <<params, indices>>)
  ELSE IF batch_dims # 0
  THEN Raises("NotImplementedError", <<params, indices>>)
  ELSE Returns(np_take(params, indices, axis), <<params, indices>>)

\* _gather_nd refusing only what _gather refuses.
_gather_nd_like_gather(params, indices, batch_dims) ==
  IF batch_dims # 0 THEN Raises("NotImplementedError", <<params, indices>>)
  ELSE Returns(Good(<<params>>), <<params, indices>>)

_gather_nd(params, indices, batch_dims) ==
  Raises("NotImplementedError", <<params, indices>>)

\* The comparison with a threshold of 1.1 in place of 0.1.
one_hot_cond_wide(k, i) == 10 * Abs(k - i) < 11

\* cond = np.abs(np.arange(depth) - indices[..., None]) < 0.1, for entry k
\* of the row of index i; tenths keep the comparison in the integers.
one_hot_cond(k, i) == 10 * Abs(k - i) < 1

\* _one_hot with its zeros declared global: the call rebinds the module's
\* name zeros to the array.
_one_hot_global_zeros(indices, depth, on_value, off_value, axis) ==
  [Returns(Good(<<Build(indices.shape \o <<depth>>,
                        LAMBDA j :
                          IF one_hot_cond(j[ndim(indices) + 1],
                                          At(indices, SubSeq(j, 1, ndim(indices))))
                          THEN 1 ELSE 0)>>),
           <<indices>>)
     EXCEPT !.globals = [globals EXCEPT !["zeros"] = "ndarray"]]

_one_hot(indices, depth, on_value, off_value, axis) ==
  LET on == IF on_value = None THEN 1 ELSE on_value[1]
      off == IF off_value = None THEN 0 ELSE off_value[1]
      r == ndim(indices)
      zeros == Build(indices.shape \o <<depth>>, LAMBDA j : 0)
      y_out == Build(zeros.shape,
                     LAMBDA j :
                       IF one_hot_cond(j[r + 1], At(indices, SubSeq(j, 1, r)))
                       THEN At(zeros, j) + on ELSE At(zeros, j) + off)
  IN Returns(Good(<<IF axis # None THEN np_moveaxis_last(y_out, axis[1])
                    ELSE y_out>>),
             <<indices>>)

RECURSIVE FlipAll(_, _)
FlipAll(tensor, axes) ==
  IF axes = <<>> THEN tensor ELSE FlipAll(np_flip(tensor, Head(axes)), Tail(axes))

\* _reverse writing the flipped entries back into its argument.
_reverse_in_place(tensor, axis) ==
  LET flipped == IF axis.ndim = 0 THEN np_flip(tensor, axis.n)
                 ELSE FlipAll(tensor, axis.items)
  IN Returns(Good(<<flipped>>), <<flipped>>)

_reverse(tensor, axis) ==
  IF axis.ndim = 0
  THEN Returns(Good(<<np_flip(tensor, axis.n)>>), <<tensor>>)
  ELSE Returns(Good(<<FlipAll(tensor, axis.items)>>), <<tensor>>)

\* _slice taking size[i] for the stop of the slice.
_slice_size_as_stop(input_, begin, size) ==
  LET k == Min(Len(begin), Len(size))
      stop(i) == IF size[i] # -1 THEN Some(size[i]) ELSE None
  IN IF globals["builtin_slice"] # "builtins.slice"
     THEN Raises("TypeError", <<input_>>)
     ELSE IF k > ndim(input_)
     THEN Returns(Bad("IndexError"), <<input_>>)
     ELSE Returns(
            Good(<<Build(
                     Tuple([i \in 1..ndim(input_) |->
                              IF i <= k
                              THEN SliceLen(begin[i], stop(i), input_.shape[i])
                              ELSE input_.shape[i]]),
                     LAMBDA j :
                       At(input_,
                          Tuple([i \in 1..ndim(input_) |->
                                   IF i <= k
                                   THEN j[i] + SliceStart(begin[i], input_.shape[i])
                                   ELSE j[i]])))>>),
            <<input_>>)

_slice(input_, begin, size) ==
  LET k == Min(Len(begin), Len(size))
      stop(i) == IF size[i] # -1 THEN Some(begin[i] + size[i]) ELSE None
  IN IF globals["builtin_slice"] # "builtins.slice"
     THEN Raises("TypeError", <<input_>>)
     ELSE IF k > ndim(input_)
     THEN Returns(Bad("IndexError"), <<input_>>)
     ELSE Returns(
            Good(<<Build(
                     Tuple([i \in 1..ndim(input_) |->
                              IF i <= k
                              THEN SliceLen(begin[i], stop(i), input_.shape[i])
                              ELSE input_.shape[i]]),
                     LAMBDA j :
                       At(input_,
                          Tuple([i \in 1..ndim(input_) |->
                                   IF i <= k
                                   THEN j[i] + SliceStart(begin[i], input_.shape[i])
                                   ELSE j[i]])))>>),
            <<input_>>)

\* np.cumsum of a list.
cumsum(s) == Tuple([i \in 1..Len(s) |-> Sum(SubSeq(s, 1, i))])

\* _split giving np.split every cumulative size, the last one included.
_split_all_points(value, num_or_size_splits, axis) ==
  IF num_or_size_splits.ndim = 1
  THEN LET sizes == num_or_size_splits.items
           total_splits == Sum(SelectSeq(sizes, LAMBDA idx : idx # -1))
           remainder ==
             Max(0, value.shape[NormAxis(axis, ndim(value)) + 1] - total_splits)
           indices_or_sections ==
             IF \E i \in 1..Len(sizes) : sizes[i] = -1
             THEN Tuple([i \in 1..Len(sizes) |->
                           IF sizes[i] # -1 THEN sizes[i] ELSE remainder])
             ELSE sizes
           points == cumsum(indices_or_sections)
       IN ReturnsList(
            np_split_indices(value, points, axis),
            <<value>>)
  ELSE ReturnsList(np_split_array(value, num_or_size_splits.n, axis),
                   <<value>>)

_split(value, num_or_size_splits, axis) ==
  IF num_or_size_splits.ndim = 1
  THEN LET sizes == num_or_size_splits.items
           total_splits == Sum(SelectSeq(sizes, LAMBDA idx : idx # -1))
           remainder ==
             Max(0, value.shape[NormAxis(axis, ndim(value)) + 1] - total_splits)
           indices_or_sections ==
             IF \E i \in 1..Len(sizes) : sizes[i] = -1
             THEN Tuple([i \in 1..Len(sizes) |->
                           IF sizes[i] # -1 THEN sizes[i] ELSE remainder])
             ELSE sizes
           points == cumsum(indices_or_sections)
       IN ReturnsList(
            np_split_indices(value, SubSeq(points, 1, Len(points) - 1), axis),
            <<value>>)
  ELSE ReturnsList(np_split_array(value, num_or_size_splits.n, axis),
                   <<value>>)

stack_lambda(values, axis) == Returns(np_stack(values, axis), values)

unstack_lambda(value, num, axis) ==
  LET pieces == np_split_sections(
                  value,
                  IF num = None THEN value.shape[NormAxis(axis, ndim(value)) + 1]
                  ELSE num[1],
                  axis)
      squeezed == Tuple([i \in 1..Len(pieces.vals) |->
                           np_squeeze(pieces.vals[i], Some(axis))])
  IN IF pieces.exc # "" THEN ReturnsList(pieces, <<value>>)
     ELSE IF \E i \in 1..Len(squeezed) : squeezed[i].exc # ""
     THEN ReturnsList(Bad("ValueError"), <<value>>)
     ELSE ReturnsList(
            Good(Tuple([i \in 1..Len(squeezed) |-> squeezed[i].vals[1]])),
            <<value>>)

\* ops.convert_to_tensor(v): v as an array; an array stays as it is.
convert_to_tensor(v) == v

concat_lambda(values, axis) ==
  Returns(np_concatenate(
            Tuple([i \in 1..Len(values) |-> convert_to_tensor(values[i])]), axis),
          values)

expand_dims_lambda(input, axis) ==
  Returns(Good(<<np_expand_dims(input, axis)>>), <<input>>)

\* value * np.ones(dims, dtype of value)
fill_lambda(dims, value) ==
  Returns(Good(<<Build(dims, LAMBDA j : value * 1)>>), <<>>)

linspace_lambda(start, stop, num) ==
  Returns(np_linspace_int(start, stop, num), <<>>)

\* meshgrid is np.meshgrid itself.
np_meshgrid_function(xi, indexing) == ReturnsList(np_meshgrid(xi, indexing), xi)

\* linalg_impl.norm(tensor, ord=1) of a vector: the sum of the absolute
\* values of its entries.
linalg_impl_norm(tensor, ord) ==
  IF ord # 1 \/ ndim(tensor) # 1 THEN Returns(Bad("ValueError"), <<tensor>>)
  ELSE Returns(
         Good(<<Scalar(Sum(Tuple([k \in 1..Len(tensor.data) |->
                                    Abs(tensor.data[k])])))>>),
         <<tensor>>)

ones_lambda(shape) == Returns(Good(<<Build(shape, LAMBDA j : 1)>>), <<>>)

zeros_lambda(shape) == Returns(Good(<<Build(shape, LAMBDA j : 0)>>), <<>>)

_shape(input) == Returns(Good(<<Vec(input.shape)>>), <<input>>)

_size(input) == Returns(Good(<<Scalar(Prod(input.shape))>>), <<input>>)

\* s = _shape(input) is an ndarray, so np.ones(s, ...) is what runs; the
\* name _shape is looked up in the globals when the call is made.
_ones_like(input) ==
  IF globals["_shape"] # "_shape" THEN Raises("TypeError", <<input>>)
  ELSE Returns(Good(<<Build(_shape(input).vals[1].data, LAMBDA j : 1)>>),
               <<input>>)

_zeros_like(input) ==
  IF globals["_shape"] # "_shape" THEN Raises("TypeError", <<input>>)
  ELSE Returns(Good(<<Build(_shape(input).vals[1].data, LAMBDA j : 0)>>),
               <<input>>)

\* str.lower() on the names of the padding modes.
lower(mode) ==
  CASE mode = "CONSTANT" -> "constant"
    [] mode = "REFLECT" -> "reflect"
    [] mode = "SYMMETRIC" -> "symmetric"
    [] OTHER -> mode

\* np.pad is always given constant_values, which it accepts for the mode
\* 'constant' only.
_pad(tensor, paddings, mode, constant_values) ==
  IF lower(mode) = "constant"
  THEN Returns(Good(<<np_pad_constant(tensor, paddings, constant_values)>>),
               <<tensor>>)
  ELSE Returns(Bad("ValueError"), <<tensor>>)

range_lambda(start, limit, delta) == Returns(np_arange(start, limit, delta), <<>>)

rank_lambda(input) == Returns(Good(<<Scalar(ndim(input))>>), <<input>>)

reshape_lambda(tensor, shape) == Returns(np_reshape(tensor, shape), <<tensor>>)

roll_lambda(input, shift, axis) ==
  Returns(Good(<<np_roll(input, shift, axis)>>), <<input>>)

_searchsorted(sorted_sequence, values, side) ==
  Returns(np_searchsorted(sorted_sequence, values, side),
          <<sorted_sequence, values>>)

squeeze_lambda(input, axis) == Returns(np_squeeze(input, axis), <<input>>)

tile_lambda(input, multiples) ==
  Returns(Good(<<np_tile(input, multiples)>>), <<input>>)

\* np.conjugate of an array of integers has the same entries.
np_conjugate(x) == x

_transpose(a, perm, conjugate) ==
  LET x == np_transpose(a, perm)
  IN Returns(IF conjugate /\ x.exc = "" THEN Good(<<np_conjugate(x.vals[1])>>)
             ELSE x,
             <<a>>)

where_lambda(condition, x, y) ==
  Returns(np_where(condition, x, y), <<condition, x, y>>)

-----------------------------------------------------------------------------
(* The parameters of each function object: their names in order, how many *)
(* have no default, and whether further positional arguments are taken    *)
(* (the named parameters can then be given by keyword only).              *)

Sig(params, required) ==
  [params |-> params, required |-> required, varargs |-> FALSE]

\* np.meshgrid(*xi, copy=True, sparse=False, indexing='xy')
np_meshgrid_signature ==
  [params |-> <<"copy", "sparse", "indexing">>, required |-> 0, varargs |-> TRUE]

\* linalg_impl.norm takes what tf.norm takes.
linalg_impl_norm_signature ==
  Sig(<<"tensor", "ord", "axis", "keepdims", "name">>, 1)

Signature(f) ==
  CASE f = "_gather" ->
         Sig(<<"params", "indices", "validate_indices", "axis", "batch_dims",
               "name">>, 2)
    [] f = "_gather_nd" -> Sig(<<"params", "indices", "batch_dims", "name">>, 2)
    [] f = "_one_hot" ->
         Sig(<<"indices", "depth", "on_value", "off_value", "axis", "dtype",
               "name">>, 2)
    [] f = "_ones_like" -> Sig(<<"input", "dtype", "name">>, 1)
    [] f = "_pad" ->
         Sig(<<"tensor", "paddings", "mode", "constant_values", "name">>, 2)
    [] f = "_reverse" -> Sig(<<"tensor", "axis", "name">>, 2)
    [] f = "_searchsorted" ->
         Sig(<<"sorted_sequence", "values", "side", "out_type", "name">>, 2)
    [] f = "_shape" -> Sig(<<"input", "out_type", "name">>, 1)
    [] f = "_size" -> Sig(<<"input", "out_type", "name">>, 1)
    [] f = "_slice" -> Sig(<<"input_", "begin", "size", "name">>, 3)
    [] f = "_split" ->
         Sig(<<"value", "num_or_size_splits", "axis", "num", "name">>, 2)
    [] f = "_transpose" -> Sig(<<"a", "perm", "conjugate", "name">>, 1)
    [] f = "_zeros_like" -> Sig(<<"input", "dtype", "name">>, 1)
    [] f = "concat.lambda" -> Sig(<<"values", "axis", "name">>, 2)
    [] f = "expand_dims.lambda" -> Sig(<<"input", "axis", "name">>, 2)
    [] f = "fill.lambda" -> Sig(<<"dims", "value", "name">>, 2)
    [] f = "linspace.lambda" -> Sig(<<"start", "stop", "num", "name">>, 3)
    [] f = "np.meshgrid" -> np_meshgrid_signature
    [] f = "linalg_impl.norm" -> linalg_impl_norm_signature
    [] f = "ones.lambda" -> Sig(<<"shape", "dtype", "name">>, 1)
    [] f = "range.lambda" -> Sig(<<"start", "limit", "delta", "dtype", "name">>, 1)
    [] f = "rank.lambda" -> Sig(<<"input", "name">>, 1)
    [] f = "reshape.lambda" -> Sig(<<"tensor", "shape", "name">>, 2)
    [] f = "roll.lambda" -> Sig(<<"input", "shift", "axis">>, 3)
    [] f = "squeeze.lambda" -> Sig(<<"input", "axis", "name">>, 1)
    [] f = "stack.lambda" -> Sig(<<"values", "axis", "name">>, 1)
    [] f = "tile.lambda" -> Sig(<<"input", "multiples", "name">>, 2)
    [] f = "unstack.lambda" -> Sig(<<"value", "num", "axis", "name">>, 1)
    [] f = "where.lambda" -> Sig(<<"condition", "x", "y", "name">>, 1)
    [] f = "zeros.lambda" -> Sig(<<"shape", "dtype", "name">>, 1)

\* Python binds npos positional arguments and the keyword arguments kws to
\* the parameters: no argument may be left over, none given twice, and
\* every parameter without a default must get one.
Accepts(sig, npos, kws) ==
  LET named(lo) == {sig.params[i] : i \in lo..Len(sig.params)}
  IN IF sig.varargs THEN kws \subseteq named(1)
     ELSE /\ npos <= Len(sig.params)
          /\ kws \subseteq named(npos + 1)
          /\ \A i \in (npos + 1)..sig.required : sig.params[i] \in kws

-----------------------------------------------------------------------------
(* Inputs. *)

\* The shapes of rank 1..MaxRank with extents 0..MaxDim.
RECURSIVE ShapesOfRank(_)
ShapesOfRank(r) ==
  IF r = 0 THEN {<<>>}
  ELSE {<<d>> \o s : d \in 0..MaxDim, s \in ShapesOfRank(r - 1)}

Shapes == UNION {ShapesOfRank(r) : r \in 1..MaxRank}

\* The array of a shape whose entries are base, base+1, ... in row-major
\* order: every entry tells its position.
Iota(shape, base) ==
  Arr(shape, Tuple([k \in 1..Prod(shape) |-> base + k - 1]))

Arrays == {Iota(s, 1) : s \in Shapes}

\* The axes of an array of rank r, counted from either end.
Axes(r) == (-r)..(r - 1)

\* Index arrays: a scalar, or a vector of at most MaxIdxLen entries, each
\* from -1 (the last entry) to MaxDim (past the end of every dimension).
IdxVals == (-1)..MaxDim
IndexArrays ==
  {Scalar(i) : i \in IdxVals}
    \cup UNION {{Vec(Tuple(v)) : v \in [1..n -> IdxVals]} : n \in 0..MaxIdxLen}

-----------------------------------------------------------------------------
(* The state: the module's global names, the call being made or last made  *)
(* (the public name called, its array arguments as they were before the    *)
(* call, its other arguments), what it returned or raised, its array       *)
(* arguments as they are now, the arguments whose contents it read, and    *)
(* one earlier call kept with its result.                                  *)

Call(fn, arrays, opts) == [fn |-> fn, arrays |-> arrays, opts |-> opts]
NoCall == Call("", <<>>, <<>>)
Idle == [kind |-> "idle", exc |-> "", vals |-> <<>>, tuple |-> FALSE]
Pending == [kind |-> "pending", exc |-> "", vals |-> <<>>, tuple |-> FALSE]

\* The module has loaded and the caller is about to make the call c.
About(c) ==
  /\ globals = ModuleGlobals
  /\ call = c
  /\ ret = Pending
  /\ after = c.arrays
  /\ reads = {}
  /\ pin = None

\* Calling the object f with array arguments a and other arguments o.
CallFn(f, a, o) ==
  CASE f = "_gather" -> _gather(a[1], a[2], o[1], o[2], o[3])
    [] f = "_gather_nd" -> _gather_nd(a[1], a[2], o[1])
    [] f = "_one_hot" -> _one_hot(a[1], o[1], o[2], o[3], o[4])
    [] f = "_ones_like" -> _ones_like(a[1])
    [] f = "_pad" -> _pad(a[1], o[1], o[2], o[3])
    [] f = "_reverse" -> _reverse(a[1], o[1])
    [] f = "_searchsorted" -> _searchsorted(a[1], a[2], o[1])
    [] f = "_shape" -> _shape(a[1])
    [] f = "_size" -> _size(a[1])
    [] f = "_slice" -> _slice(a[1], o[1], o[2])
    [] f = "_split" -> _split(a[1], o[1], o[2])
    [] f = "_transpose" -> _transpose(a[1], o[1], o[2])
    [] f = "_zeros_like" -> _zeros_like(a[1])
    [] f = "concat.lambda" -> concat_lambda(a, o[1])
    [] f = "expand_dims.lambda" -> expand_dims_lambda(a[1], o[1])
    [] f = "fill.lambda" -> fill_lambda(o[1], o[2])
    [] f = "linspace.lambda" -> linspace_lambda(o[1], o[2], o[3])
    [] f = "np.meshgrid" -> np_meshgrid_function(a, o[1])
    [] f = "linalg_impl.norm" -> linalg_impl_norm(a[1], o[1])
    [] f = "ones.lambda" -> ones_lambda(o[1])
    [] f = "range.lambda" -> range_lambda(o[1], o[2], o[3])
    [] f = "rank.lambda" -> rank_lambda(a[1])
    [] f = "reshape.lambda" -> reshape_lambda(a[1], o[1])
    [] f = "roll.lambda" -> roll_lambda(a[1], o[1], o[2])
    [] f = "squeeze.lambda" -> squeeze_lambda(a[1], o[1])
    [] f = "stack.lambda" -> stack_lambda(a, o[1])
    [] f = "tile.lambda" -> tile_lambda(a[1], o[1])
    [] f = "unstack.lambda" -> unstack_lambda(a[1], o[1], o[2])
    [] f = "where.lambda" -> where_lambda(a[1], a[2], a[3])
    [] f = "zeros.lambda" -> zeros_lambda(o[1])
    [] OTHER -> Raises("TypeError", a)

\* The pending call of the public name runs: the name is looked up in the
\* globals and the object found is called.
Do(name) ==
  LET out == CallFn(globals[name], call.arrays, call.opts)
  IN /\ call.fn = name
     /\ ret = Pending
     /\ ret' = [kind |-> out.kind, exc |-> out.exc, vals |-> out.vals,
                tuple |-> out.tuple]
     /\ after' = out.args
     /\ reads' = out.reads
     /\ globals' = out.globals
     /\ UNCHANGED <<call, pin>>

gather == Do("gather")

-----------------------------------------------------------------------------
(* gather on arrays of every shape. *)

OptBool == {None, Some(TRUE), Some(FALSE)}

InitGather ==
  \E params \in Arrays, indices \in IndexArrays,
     validate_indices \in OptBool, batch_dims \in 0..1 :
    \E axis \in {None} \cup {Some(ax) : ax \in Axes(ndim(params))} :
      About(Call("gather", <<params, indices>>,
                 <<validate_indices, axis, batch_dims>>))

SpecGather == InitGather /\ [][gather]_vars

\* The call has run.
Done == ret.kind \in {"return", "raise"}
Returned == ret.kind = "return"
RaisedError(e) == ret.kind = "raise" /\ ret.exc = e

\* C1: gather raises NotImplementedError whenever validate_indices is not
\* None or batch_dims is not 0, whatever params, indices and axis are, and
\* does so without having read or changed params; with validate_indices
\* None and batch_dims 0 it never raises NotImplementedError.
C1_GatherNotImplemented ==
  (call.fn = "gather" /\ Done) =>
    LET unsupported == call.opts[1] # None \/ call.opts[3] # 0
    IN /\ unsupported =>
            /\ RaisedError("NotImplementedError")
            /\ reads = {}
            /\ after = call.arrays
       /\ ~unsupported => ret.exc # "NotImplementedError"

\* gather has raised for batch_dims alone, on a non-empty params.
C1_Witness ==
  /\ call.fn = "gather" /\ RaisedError("NotImplementedError")
  /\ call.opts[1] = None /\ call.opts[3] = 1
  /\ call.arrays[1].shape = <<2, 2>>

\* The reference gather along axis a (0-based, not negative): the result
\* has the shape params.shape[:a] + indices.shape + params.shape[a+1:] and
\* its entry at p + i + q is params[p + (indices[i],) + q].
ReferenceGatherShape(params, indices, a) ==
  SubSeq(params.shape, 1, a) \o indices.shape
    \o SubSeq(params.shape, a + 2, ndim(params))

IsReferenceGather(result, params, indices, a) ==
  /\ result.shape = ReferenceGatherShape(params, indices, a)
  /\ \A p \in Indices(SubSeq(params.shape, 1, a)),
        i \in Indices(indices.shape),
        q \in Indices(SubSeq(params.shape, a + 2, ndim(params))) :
       At(result, p \o i \o q) = At(params, p \o <<At(indices, i)>> \o q)

\* Every index is a position of dimension a of params.
IndicesWithin(params, indices, a) ==
  \A k \in 1..Len(indices.data) :
    0 <= indices.data[k] /\ indices.data[k] < params.shape[a + 1]

\* C6: with validate_indices None and batch_dims 0, gather returns the
\* entries of params that indices select along the axis given, and with the
\* default axis (None) it selects along the first axis: the result equals
\* that of axis=0 and has shape indices.shape + params.shape[1:].
C6_GatherSelectsAlongAxis ==
  (call.fn = "gather" /\ Done /\ call.opts[1] = None /\ call.opts[3] = 0) =>
    LET params == call.arrays[1]
        indices == call.arrays[2]
        a == IF call.opts[2] = None THEN 0
             ELSE NormAxis(call.opts[2][1], ndim(params))
    IN IndicesWithin(params, indices, a) =>
         /\ Returned
         /\ IsReferenceGather(ret.vals[1], params, indices, a)

\* The part of C6 about an axis that is given.
GatherSelectsAlongGivenAxis ==
  (call.fn = "gather" /\ call.opts[2] # None) => C6_GatherSelectsAlongAxis

GatherGivenAxisWitness ==
  /\ call.fn = "gather" /\ Returned /\ call.opts[2] = Some(1)
  /\ call.arrays[1].shape = <<2, 2>> /\ call.arrays[2] = Vec(<<1, 0>>)

-----------------------------------------------------------------------------
(* one_hot on index arrays. *)

one_hot == Do("one_hot")

OptValues(vs) == {None} \cup {Some(v) : v \in vs}

InitOneHot ==
  \E indices \in IndexArrays, depth \in 0..MaxDepth,
     on_value \in OptValues({0, 5}), off_value \in OptValues({-1}) :
    \E axis \in {None} \cup {Some(ax) : ax \in Axes(ndim(indices) + 1)} :
      About(Call("one_hot", <<indices>>, <<depth, on_value, off_value, axis>>))

SpecOneHot == InitOneHot /\ [][one_hot]_vars

-----------------------------------------------------------------------------
(* split on arrays of every shape. *)

split == Do("split")

\* Lists of at most MaxSizes sizes, each from -1 to MaxDim.
SizeLists == UNION {[1..n -> (-1)..MaxDim] : n \in 0..MaxSizes}

InitSplit ==
  \E value \in Arrays,
     num_or_size_splits \in {ListArg(Tuple(sz)) : sz \in SizeLists}
                             \cup {IntArg(n) : n \in 0..MaxDim} :
    \E axis \in Axes(ndim(value)) :
      About(Call("split", <<value>>, <<num_or_size_splits, axis>>))

SpecSplit == InitSplit /\ [][split]_vars

\* The sizes with the entry -1 standing for the remainder
\* max(0, extent - sum of the other entries).
ResolvedSizes(sizes, extent) ==
  Tuple([i \in 1..Len(sizes) |->
           IF sizes[i] # -1 THEN sizes[i]
           ELSE Max(0, extent - Sum(SelectSeq(sizes, LAMBDA x : x # -1)))])

AtMostOneRemainder(sizes) ==
  Cardinality({i \in 1..Len(sizes) : sizes[i] = -1}) <= 1

\* split has returned len(sizes) pieces, in order, whose concatenation
\* along the axis is value, piece i having extent sizes[i] along the axis.
SplitGivesSizes(value, sizes, axis) ==
  LET ax == NormAxis(axis, ndim(value))
      want == ResolvedSizes(sizes, value.shape[ax + 1])
  IN /\ Returned
     /\ Len(ret.vals) = Len(sizes)
     /\ \A i \in 1..Len(ret.vals) : ret.vals[i].shape[ax + 1] = want[i]
     /\ np_concatenate(ret.vals, axis) = Good(<<value>>)

\* C7 as claimed: split with a 1-D list of sizes, at most one of them -1,
\* returns exactly len(sizes) pieces, in order, whose concatenation along
\* the axis equals value, piece i having extent sizes[i] (-1: the
\* remainder) along the axis.
C7_SplitSizes ==
  (call.fn = "split" /\ Done /\ call.opts[1].ndim = 1
     /\ AtMostOneRemainder(call.opts[1].items)) =>
    SplitGivesSizes(call.arrays[1], call.opts[1].items, call.opts[2])

\* C7 as amended: the same for a list of sizes that is not empty and whose
\* entries (-1: the remainder) sum to the extent of value along the axis.
C7_SplitSizesThatSum ==
  (call.fn = "split" /\ Done /\ call.opts[1].ndim = 1
     /\ AtMostOneRemainder(call.opts[1].items)) =>
    LET value == call.arrays[1]
        sizes == call.opts[1].items
        extent == value.shape[NormAxis(call.opts[2], ndim(value)) + 1]
    IN (sizes # <<>> /\ Sum(ResolvedSizes(sizes, extent)) = extent) =>
         SplitGivesSizes(value, sizes, call.opts[2])

\* split has cut a 2x2 array along its second axis into sizes [1, -1].
C7_Witness ==
  /\ call.fn = "split" /\ Returned
  /\ call.arrays[1] = Iota(<<2, 2>>, 1)
  /\ call.opts = <<ListArg(<<1, -1>>), 1>>
  /\ ret.vals = <<Arr(<<2, 1>>, <<1, 3>>), Arr(<<2, 1>>, <<2, 4>>)>>

-----------------------------------------------------------------------------
(* unstack and stack on arrays of every shape. *)

unstack == Do("unstack")

InitUnstack ==
  \E value \in Arrays, num \in OptValues(0..MaxDim) :
    \E axis \in Axes(ndim(value)) :
      About(Call("unstack", <<value>>, <<num, axis>>))

SpecUnstack == InitUnstack /\ [][unstack]_vars

\* The slice of value at index i (0-based) of axis ax, the axis removed.
SliceOf(value, ax, i) ==
  Build(Drop(value.shape, ax + 1), LAMBDA j : At(value, Insert(j, ax + 1, i)))

\* unstack with num None has returned value.shape[axis] arrays, the i-th
\* the slice of value at index i of the axis, and stack of them along the
\* axis is value.
UnstackRoundTrip ==
  LET value == call.arrays[1]
      ax == NormAxis(call.opts[2], ndim(value))
  IN /\ Returned
     /\ Len(ret.vals) = value.shape[ax + 1]
     /\ \A i \in 1..Len(ret.vals) : ret.vals[i] = SliceOf(value, ax, i - 1)
     /\ stack_lambda(ret.vals, call.opts[2]).vals = <<value>>

\* C8: for every value of rank >= 1 and every valid axis, unstack with num
\* None returns exactly value.shape[axis] arrays, the i-th being the slice
\* at index i with the axis removed, and stack of them along the same axis
\* equals value, also when value.shape[axis] is 0 or 1.
C8_UnstackRoundTrip ==
  (call.fn = "unstack" /\ Done /\ call.opts[1] = None) => UnstackRoundTrip

\* The part of C8 about an axis whose extent is not 0.
UnstackRoundTripNonEmpty ==
  (call.fn = "unstack" /\ Done /\ call.opts[1] = None
     /\ call.arrays[1].shape[NormAxis(call.opts[2], ndim(call.arrays[1])) + 1] # 0)
    => UnstackRoundTrip

-----------------------------------------------------------------------------
(* slice on arrays of every shape. *)

slice == Do("slice")

\* begin and size for each dimension: begin from 0 to one past the extent,
\* size from -2 to one more than what is left.
RECURSIVE BeginSizes(_)
BeginSizes(shape) ==
  IF shape = <<>> THEN {<<>>}
  ELSE {<<bs>> \o rest :
          bs \in UNION {{<<b, sz>> : sz \in (-2)..(Head(shape) - b + 1)} :
                        b \in 0..(Head(shape) + 1)},
          rest \in BeginSizes(Tail(shape))}

InitSlice ==
  \E input_ \in Arrays :
    \E bs \in BeginSizes(input_.shape) :
      About(Call("slice", <<input_>>,
                 <<Tuple([i \in 1..Len(bs) |-> bs[i][1]]),
                   Tuple([i \in 1..Len(bs) |-> bs[i][2]])>>))

SpecSlice == InitSlice /\ [][slice]_vars

\* What is left of dimension i from begin[i] on, for size[i] = -1.
SliceExtent(input_, begin, size, i) ==
  IF size[i] = -1 THEN input_.shape[i] - begin[i] ELSE size[i]

\* slice has returned the block of input_ that starts at begin and has the
\* extents asked for.
SliceGivesBlock(input_, begin, size) ==
  /\ Returned
  /\ ret.vals[1].shape =
       Tuple([i \in 1..ndim(input_) |-> SliceExtent(input_, begin, size, i)])
  /\ \A j \in Indices(ret.vals[1].shape) :
       At(ret.vals[1], j) =
         At(input_, Tuple([i \in 1..Len(j) |-> begin[i] + j[i]]))

\* C9 as claimed: where 0 <= begin[i] and begin[i]+size[i] <= shape[i] in
\* every dimension, the result has extent size[i] (shape[i] - begin[i] for
\* size[i] = -1) and result[j] = input_[begin + j].
C9_SliceBlock ==
  (call.fn = "slice" /\ Done) =>
    LET input_ == call.arrays[1]
        begin == call.opts[1]
        size == call.opts[2]
    IN (\A i \in 1..ndim(input_) :
          0 <= begin[i] /\ begin[i] + size[i] <= input_.shape[i]) =>
         SliceGivesBlock(input_, begin, size)

\* C9 as amended: the same where, in every dimension, 0 <= begin[i] <=
\* shape[i] and size[i] is -1, or at least 0 with begin[i]+size[i] <=
\* shape[i].
C9_SliceBlockWithin ==
  (call.fn = "slice" /\ Done) =>
    LET input_ == call.arrays[1]
        begin == call.opts[1]
        size == call.opts[2]
    IN (\A i \in 1..ndim(input_) :
          /\ 0 <= begin[i] /\ begin[i] <= input_.shape[i]
          /\ \/ size[i] = -1
             \/ size[i] >= 0 /\ begin[i] + size[i] <= input_.shape[i]) =>
         SliceGivesBlock(input_, begin, size)

\* slice has taken the second column of a 2x2 array.
C9_Witness ==
  /\ call.fn = "slice" /\ Returned
  /\ call.arrays[1] = Iota(<<2, 2>>, 1)
  /\ call.opts = <<<<0, 1>>, <<-1, 1>>>>
  /\ ret.vals[1] = Arr(<<2, 1>>, <<2, 4>>)

-----------------------------------------------------------------------------
(* Calls whose arguments are only bound to the parameters. *)

Public == {__all__[i] : i \in 1..Len(__all__)}

InitSig ==
  \E name \in Public, npos \in 0..MaxPos, kws \in SUBSET {"name", "axis"} :
    About(Call(name, <<>>, <<npos, kws>>))

\* Python looks the public name up and binds the arguments of the pending
\* call to the parameters of the object found, before its body runs.
bind ==
  /\ ret = Pending
  /\ call.fn \in Public
  /\ ret' = IF Accepts(Signature(globals[call.fn]), call.opts[1], call.opts[2])
            THEN [kind |-> "bound", exc |-> "", vals |-> <<>>, tuple |-> FALSE]
            ELSE [kind |-> "raise", exc |-> "TypeError", vals |-> <<>>,
                  tuple |-> FALSE]
  /\ UNCHANGED <<globals, call, after, reads, pin>>

SpecSig == InitSig /\ [][bind]_vars

\* C3: each of the 30 public functions accepts the argument names of the
\* reference function whose docstring it copies, the optional trailing
\* name argument included: a call that gives the arguments without a
\* default by position and name by keyword, such as
\* roll(input, shift, axis, name=...), is accepted.
C3_AcceptsName ==
  (call.fn \in Public /\ ret.kind \in {"bound", "raise"}
     /\ call.opts[1] = Signature(ModuleGlobals[call.fn]).required
     /\ call.opts[2] = {"name"}) =>
    ret.kind = "bound"

\* The part of C3 about every function but roll and meshgrid.
AcceptsNameButRollAndMeshgrid ==
  (call.fn \notin {"roll", "meshgrid"}) => C3_AcceptsName

-----------------------------------------------------------------------------
(* A session: the module has loaded and the caller makes one call after    *)
(* another.                                                                *)

ModArrays == {Iota(<<n>>, 1) : n \in 1..MaxModDim}

ModuleCalls ==
  UNION {
    {Call("concat", <<a, a>>, <<0>>),
     Call("expand_dims", <<a>>, <<0>>),
     Call("fill", <<>>, <<a.shape, 7>>),
     Call("gather", <<a, Scalar(0)>>, <<None, None, 0>>),
     Call("gather", <<a, Scalar(0)>>, <<Some(TRUE), None, 0>>),
     Call("gather_nd", <<a, Vec(<<0>>)>>, <<0>>),
     Call("gather_nd", <<a, Vec(<<0>>)>>, <<1>>),
     Call("linspace", <<>>, <<0, 2 * a.shape[1], a.shape[1] + 1>>),
     Call("meshgrid", <<a, a>>, <<"xy">>),
     Call("norm", <<a>>, <<1>>),
     Call("one_hot", <<a>>, <<2, None, None, None>>),
     Call("ones", <<>>, <<a.shape>>),
     Call("ones_like", <<a>>, <<>>),
     Call("pad", <<a>>, <<<< <<1, 0>> >>, "CONSTANT", 0>>),
     Call("pad", <<a>>, <<<< <<1, 0>> >>, "REFLECT", 0>>),
     Call("range", <<>>, <<a.shape[1], None, 1>>),
     Call("rank", <<a>>, <<>>),
     Call("reshape", <<a>>, <<<<-1, 1>>>>),
     Call("reverse", <<a>>, <<IntArg(0)>>),
     Call("reverse", <<a>>, <<ListArg(<<0, -1>>)>>),
     Call("roll", <<a>>, <<1, 0>>),
     Call("searchsorted", <<a, a>>, <<"left">>),
     Call("shape", <<a>>, <<>>),
     Call("size", <<a>>, <<>>),
     Call("slice", <<a>>, <<<<1>>, <<-1>>>>),
     Call("split", <<a>>, <<ListArg(<<1, -1>>), 0>>),
     Call("squeeze", <<a>>, <<None>>),
     Call("stack", <<a, a>>, <<0>>),
     Call("tile", <<a>>, <<<<2>>>>),
     Call("transpose", <<a>>, <<None, FALSE>>),
     Call("unstack", <<a>>, <<None, 0>>),
     Call("where", <<Arr(a.shape, Tuple([k \in 1..Len(a.data) |-> k % 2])), a,
                     Scalar(0)>>, <<>>),
     Call("zeros", <<>>, <<a.shape>>),
     Call("zeros_like", <<a>>, <<>>)} :
    a \in ModArrays}

Init ==
  /\ globals = ModuleGlobals
  /\ call = NoCall
  /\ ret = Idle
  /\ after = <<>>
  /\ reads = {}
  /\ pin = None

\* The caller makes the next call; the call that has just ended may be
\* kept, with its result, if none is kept yet.
Request ==
  /\ ret.kind \in {"idle", "return", "raise"}
  /\ \E c \in ModuleCalls :
       /\ call' = c
       /\ after' = c.arrays
  /\ ret' = Pending
  /\ reads' = {}
  /\ \E keep \in BOOLEAN :
       pin' = IF keep /\ pin = None /\ ret.kind # "idle"
              THEN Some([call |-> call, ret |-> ret])
              ELSE pin
  /\ UNCHANGED globals

concat == Do("concat")
expand_dims == Do("expand_dims")
fill == Do("fill")
gather_nd == Do("gather_nd")
linspace == Do("linspace")
meshgrid == Do("meshgrid")
norm == Do("norm")
ones == Do("ones")
ones_like == Do("ones_like")
pad == Do("pad")
range == Do("range")
rank == Do("rank")
reshape == Do("reshape")
reverse == Do("reverse")
roll == Do("roll")
searchsorted == Do("searchsorted")
shape == Do("shape")
size == Do("size")
squeeze == Do("squeeze")
stack == Do("stack")
tile == Do("tile")
transpose == Do("transpose")
where == Do("where")
zeros == Do("zeros")
zeros_like == Do("zeros_like")

Next ==
  \/ Request
  \/ concat \/ expand_dims \/ fill \/ gather \/ gather_nd \/ linspace
  \/ meshgrid \/ norm \/ one_hot \/ ones \/ ones_like \/ pad \/ range
  \/ rank \/ reshape \/ reverse \/ roll \/ searchsorted \/ shape \/ size
  \/ slice \/ split \/ squeeze \/ stack \/ tile \/ transpose \/ unstack
  \/ where \/ zeros \/ zeros_like

Spec == Init /\ [][Next]_vars

\* C2: gather_nd raises NotImplementedError on every call, whatever params,
\* indices and batch_dims (the default 0 included) are, and never returns
\* a value.
C2_GatherNdAlwaysRaises ==
  (call.fn = "gather_nd" /\ Done) =>
    /\ RaisedError("NotImplementedError")
    /\ ret.vals = <<>>

\* gather_nd has raised for the default batch_dims.
C2_Witness ==
  /\ call.fn = "gather_nd" /\ RaisedError("NotImplementedError")
  /\ call.opts = <<0>>

\* The 30 names the module exports.
ExportedNames ==
  {"concat", "expand_dims", "fill", "gather", "gather_nd", "linspace",
   "meshgrid", "norm", "one_hot", "ones", "ones_like", "pad", "range", "rank",
   "reshape", "reverse", "roll", "searchsorted", "shape", "size", "slice",
   "split", "squeeze", "stack", "tile", "transpose", "unstack", "where",
   "zeros", "zeros_like"}

\* What a name is bound to is a function: a def, a lambda or a function of
\* a library.
IsFunction(obj) ==
  obj \in {"_gather", "_gather_nd", "_one_hot", "_ones_like", "_pad",
           "_reverse", "_searchsorted", "_shape", "_size", "_slice", "_split",
           "_transpose", "_zeros_like", "np.meshgrid", "linalg_impl.norm"}
    \cup {n \o ".lambda" : n \in ExportedNames}

\* C4: the exported names are exactly the 30 names, every one is bound to a
\* function, and after any sequence of calls of the public functions, the
\* calls that raise included, every name is bound to the same function as
\* when the module had loaded.
C4_TableNeverChanges ==
  /\ Public = ExportedNames
  /\ Len(__all__) = Cardinality(ExportedNames)
  /\ \A n \in ExportedNames :
       /\ IsFunction(globals[n])
       /\ globals[n] = ModuleGlobals[n]

\* A call of gather_nd has raised, and a later call of one_hot, which
\* assigns to names of its own, has returned: zeros is bound as before.
C4_Witness ==
  /\ pin # None /\ pin[1].call.fn = "gather_nd" /\ pin[1].ret.kind = "raise"
  /\ call.fn = "one_hot" /\ Returned
  /\ globals["zeros"] = "zeros.lambda"

\* The same function called with the same arguments.
SameCall(c1, c2) ==
  c1.fn = c2.fn /\ c1.arrays = c2.arrays /\ c1.opts = c2.opts

\* C5: every call leaves the contents and shape of each input array as
\* they were, whether it returns or raises, and its result depends on its
\* arguments only: a call with the arguments of an earlier call gives the
\* result of the earlier call, whatever calls were made in between.
C5_StatelessAndInputsKept ==
  Done =>
    /\ after = call.arrays
    /\ (pin # None /\ SameCall(pin[1].call, call)) => pin[1].ret = ret

\* reverse has been called again with the arguments of a kept call, and has
\* returned the flipped array, its argument being as it was.
C5_Witness ==
  /\ pin # None /\ SameCall(pin[1].call, call)
  /\ call.fn = "reverse" /\ Returned
  /\ call.arrays = <<Arr(<<2>>, <<1, 2>>)>>
  /\ ret.vals = <<Arr(<<2>>, <<2, 1>>)>>
  /\ after = call.arrays

====
